---- MODULE Spec2Model ----
(***************************************************************************)
(* A model of the path tracer: the sphere intersection test, the recursive *)
(* trace function (both the ray_tracer package's and main.py's), the       *)
(* render loops, the process-pool render and render_single_image.          *)
(*                                                                         *)
(* Numbers.  The program computes in IEEE doubles.  The model computes in  *)
(* fixed point: the integer n stands for the real n / Scale.  Products are *)
(* floored to the grid, square roots are floored to the grid.              *)
(***************************************************************************)
EXTENDS Integers, Sequences, FiniteSets, TLC

VARIABLES
    \* --- the arguments of a call
    obj,            \* the sphere intersect is called on
    ray_origin,     \* the ray's origin
    ray_dir,        \* the ray's direction
    scene,          \* the spheres, in order
    lights,         \* the lights, in order
    environment,    \* the environment's image, <<>> for None
    max_depth,      \* trace's max_depth
    impl,           \* whose trace runs: "ray_tracing" or "main"
    \* --- results and control
    t_result,       \* what intersect returned
    stack,          \* the frames of the nested trace calls, the innermost last
    ret,            \* the value the last trace call returned, until its caller takes it
    pc,             \* the position of the top-level caller
    \* --- render
    width,
    height,
    image,          \* the pixel buffer: image[i][j], rows and columns from 1
    loop_i,         \* the row of the pixel loop, from 0
    loop_j,         \* the column of the pixel loop, from 0
    \* --- render_monte_carlo_live and the loop that consumes it
    samples_per_pixel,
    sample,             \* the pass, from 1
    accumulated_color,  \* the sums of the samples, per pixel
    sampled,            \* how many samples each pixel's sum holds
    updates,            \* the images yielded so far, each with the state it was made from
    partial_image,      \* the loop variable of the consumer, <<>> while unbound
    \* --- render_single_image
    log_results,
    render_algorithm,
    denoise,
    output_dir,         \* render_config.output_path.parent
    dirs,               \* the directories that exist
    dirs_before,        \* the directories that existed when the call began
    csv_created,        \* dataset/render_times.csv has been created by this call
    csv_rows,           \* the rows this call has added to it
    saved,              \* the image written to output_path, <<>> while none
    \* --- render_monte_carlo_processes
    futures,            \* the submitted tasks, in order
    next_future,        \* the future the gathering loop waits for, from 1
    writes,             \* how many times each cell of image has been written
    failing,            \* the cells whose render_pixel raises
    raised              \* the future whose error reached the caller, 0 while none

callVars == <<obj, ray_origin, ray_dir, scene, lights, environment, max_depth, impl>>

renderVars == <<width, height, image, loop_i, loop_j>>

liveVars == <<samples_per_pixel, sample, accumulated_color, sampled, updates, partial_image>>

singleVars ==
    <<log_results, render_algorithm, denoise, output_dir, dirs, dirs_before,
      csv_created, csv_rows, saved>>

procVars == <<futures, next_future, writes, failing, raised>>

otherVars == <<liveVars, singleVars, procVars>>

vars == <<callVars, t_result, stack, ret, pc, renderVars, otherVars>>

-----------------------------------------------------------------------------
(* Fixed-point arithmetic *)

\* 1.0 on the fixed-point grid: four decimal digits, so that 1e-4 is 1.
Scale == 100 * 100

One == Scale

Num(n) == n * Scale

Max(a, b) == IF a >= b THEN a ELSE b

Min(a, b) == IF a <= b THEN a ELSE b

\* a * b: floor(a*b / Scale), computed by parts so that no intermediate
\* product leaves TLC's 32-bit integers.
Mul(a, b) ==
    LET ah == a \div Scale
        al == a % Scale
        bh == b \div Scale
        bl == b % Scale
    IN  ah * bh * Scale + ah * bl + al * bh + (al * bl) \div Scale

\* a / b for b # 0: floor(a * Scale / b), two decimal digits at a time so
\* that no intermediate product leaves TLC's 32-bit integers.
Div(a, b) ==
    LET q == a \div b
        r == a - q * b
        d1 == (r * 100) \div b
        r1 == r * 100 - d1 * b
    IN  q * Scale + d1 * 100 + (r1 * 100) \div b

RECURSIVE ISqrtB(_, _, _)
\* the largest r in lo..hi with r*r <= n
ISqrtB(n, lo, hi) ==
    IF lo >= hi THEN lo
    ELSE LET mid == (lo + hi + 1) \div 2
         IN  IF mid * mid <= n THEN ISqrtB(n, mid, hi)
                               ELSE ISqrtB(n, lo, mid - 1)

ISqrt(n) == ISqrtB(n, 0, Min(n, 46340))

RECURSIVE SqrtDigits(_, _, _, _)
\* the largest d in lo..hi with (100*r0 + d)^2 <= 10^4 * v
SqrtDigits(v, r0, lo, hi) ==
    IF lo >= hi THEN lo
    ELSE LET mid == (lo + hi + 1) \div 2
         IN  IF 200 * r0 * mid + mid * mid <= Scale * (v - r0 * r0)
             THEN SqrtDigits(v, r0, mid, hi)
             ELSE SqrtDigits(v, r0, lo, mid - 1)

\* np.sqrt(v) for v >= 0: floor(sqrt(v * Scale)), the root on the grid.
Sqrt(v) ==
    LET r0 == ISqrt(v)
    IN  100 * r0 + SqrtDigits(v, r0, 0, 99)

-----------------------------------------------------------------------------
(* Vec3 *)

Vec3(x, y, z) == [x |-> x, y |-> y, z |-> z]

\* Vec3.__add__
add(a, b) == Vec3(a.x + b.x, a.y + b.y, a.z + b.z)

\* Vec3.__sub__
sub(a, b) == Vec3(a.x - b.x, a.y - b.y, a.z - b.z)

\* Vec3.__mul__ by a scalar
scale(a, s) == Vec3(Mul(a.x, s), Mul(a.y, s), Mul(a.z, s))

\* Vec3.__mul__ by a Vec3: element-wise
mulv(a, b) == Vec3(Mul(a.x, b.x), Mul(a.y, b.y), Mul(a.z, b.z))

\* Vec3.dot
dot(a, b) == Mul(a.x, b.x) + Mul(a.y, b.y) + Mul(a.z, b.z)

\* the floor of the denominator in norm: 1e-6 in the program, the least
\* positive value of the grid here
NormFloor == 1

\* Vec3.norm
norm(a) ==
    LET length == Sqrt(dot(a, a))
    IN  scale(a, Div(One, Max(length, NormFloor)))

Zero3 == Vec3(0, 0, 0)

-----------------------------------------------------------------------------
(* Sphere *)

Sphere(center, radius, color, reflection, roughness, texture) ==
    [center |-> center, radius |-> radius, color |-> color,
     reflection |-> reflection, roughness |-> roughness, texture |-> texture]

\* An optional number: Python's None, or a float.
None == [hit |-> FALSE, t |-> 0]

Some(t) == [hit |-> TRUE, t |-> t]

\* a discriminant test that takes a tangent ray for a hit
HasRoots_NonStrict(disc) == disc >= 0

\* the discriminant test of intersect
HasRoots(disc) == disc > 0

\* the root intersect returns once the discriminant is positive
PickRoot(t0, t1) ==
    IF t0 > 0 THEN Some(t0)
    ELSE IF t1 > 0 THEN Some(t1)
    ELSE None

\* the coefficients intersect computes
QuadB(s, o, d) == Mul(Num(2), dot(sub(o, s.center), d))

QuadC(s, o, d) ==
    LET oc == sub(o, s.center) IN dot(oc, oc) - Mul(s.radius, s.radius)

QuadDisc(s, o, d) ==
    LET b == QuadB(s, o, d) IN Mul(b, b) - Mul(Num(4), QuadC(s, o, d))

\* the roots, for disc > 0
RootT0(s, o, d) == (-QuadB(s, o, d) - Sqrt(QuadDisc(s, o, d))) \div 2

RootT1(s, o, d) == (-QuadB(s, o, d) + Sqrt(QuadDisc(s, o, d))) \div 2

\* Sphere.intersect
intersect(s, o, d) ==
    IF HasRoots(QuadDisc(s, o, d))
    THEN PickRoot(RootT0(s, o, d), RootT1(s, o, d))
    ELSE None

\* Python's truth value of what intersect returned: None and 0.0 are false
Truthy(t) == t.hit /\ t.t # 0

\* Sphere.get_surface_color and get_texture_color, for a texture of 3 x 3
\* texels: with u = 0.5 + atan2(n.z, n.x) / 2pi and v = 0.5 - asin(n.y) / pi,
\* both taken modulo 1, the column int(u * 2) is 0 below one half and 1 from
\* there on, and so is the row int(v * 2).
TexColumn(n) == IF n.z < 0 \/ (n.z = 0 /\ n.x < 0) THEN 1 ELSE 2

TexRow(n) == IF n.y > 0 \/ n.y <= -One THEN 1 ELSE 2

get_texture_color(texture, n) == texture[TexRow(n)][TexColumn(n)]

get_surface_color(s, hit_point) ==
    IF s.texture # <<>>
    THEN get_texture_color(s.texture, norm(sub(hit_point, s.center)))
    ELSE s.color

\* HDRIEnvironment.get_color: the direction sampled with the same mapping
get_color(env, d) == get_texture_color(env, d)

\* Vector3D.perturb: the direction plus a random offset bounded by the
\* roughness, normalized again
PerturbOffsets(r) ==
    {Vec3(0, 0, 0), Vec3(r, 0, 0), Vec3(-r, 0, 0), Vec3(0, r, 0), Vec3(0, -r, 0)}

perturb(d, r) == {norm(add(d, off)) : off \in PerturbOffsets(r)}

Light(position, intensity) == [position |-> position, intensity |-> intensity]

-----------------------------------------------------------------------------
(* trace *)

\* float("inf"): above every value of the grid
Inf == 2147483647

\* the offset of shadow and reflection rays along the normal, 1e-4
Eps == 1

\* the depth cutoff main.py's trace hard-codes
MainMaxDepth == 3

\* a test that lets a later primitive at the same t replace the nearest
Closer_OrEqual(t, nearest_t) == Truthy(t) /\ t.t <= nearest_t

\* the test of the nearest-hit loop: if t and t < nearest_t
Closer(t, nearest_t) == Truthy(t) /\ t.t < nearest_t

RECURSIVE NearestFrom(_, _, _, _, _)
\* the nearest-hit loop from primitive k on; nearest_obj is the primitive's
\* place in the scene, 0 for None
NearestFrom(sc, o, d, k, nearest) ==
    IF k > Len(sc) THEN nearest
    ELSE LET t == intersect(sc[k], o, d)
         IN  NearestFrom(sc, o, d, k + 1,
                 IF Closer(t, nearest.nearest_t)
                 THEN [nearest_t |-> t.t, nearest_obj |-> k]
                 ELSE nearest)

Nearest(sc, o, d) == NearestFrom(sc, o, d, 1, [nearest_t |-> Inf, nearest_obj |-> 0])

\* a shadow test that takes the hit primitive for an occluder too
ShadowCandidates_WithSelf(sc, nearest_obj) == 1..Len(sc)

\* the primitives a shadow ray is tested against: for obj in scene if obj != nearest_obj
ShadowCandidates(sc, nearest_obj) == {k \in 1..Len(sc) : k # nearest_obj}

shadow_ray_origin(hit_point, normal) == add(hit_point, scale(normal, Eps))

light_dir(light, hit_point) == norm(sub(light.position, hit_point))

\* a shadow test that stops at the light: only hits nearer than the light count
shadow_intersect_UpToLight(sc, nearest_obj, hit_point, normal, light) ==
    \E k \in ShadowCandidates(sc, nearest_obj) :
        LET t == intersect(sc[k], shadow_ray_origin(hit_point, normal),
                           light_dir(light, hit_point))
            w == sub(light.position, hit_point)
        IN  Truthy(t) /\ t.t < Sqrt(dot(w, w))

\* shadow_intersect = any(obj.intersect(shadow_ray_origin, light_dir) ...)
shadow_intersect(sc, nearest_obj, hit_point, normal, light) ==
    \E k \in ShadowCandidates(sc, nearest_obj) :
        Truthy(intersect(sc[k], shadow_ray_origin(hit_point, normal),
                         light_dir(light, hit_point)))

\* what an unshadowed light adds: light.intensity * max(normal.dot(light_dir), 0)
Diffuse(normal, light, hit_point) ==
    scale(light.intensity, Max(dot(normal, light_dir(light, hit_point)), 0))

\* what one light adds to light_contribution
LightTerm(sc, nearest_obj, hit_point, normal, light) ==
    IF ~shadow_intersect(sc, nearest_obj, hit_point, normal, light)
    THEN Diffuse(normal, light, hit_point)
    ELSE Zero3

RECURSIVE LightSum(_, _, _, _, _, _, _)
\* the loop over the lights from light k on
LightSum(sc, ls, nearest_obj, hit_point, normal, k, acc) ==
    IF k > Len(ls) THEN acc
    ELSE LightSum(sc, ls, nearest_obj, hit_point, normal, k + 1,
                  add(acc, LightTerm(sc, nearest_obj, hit_point, normal, ls[k])))

light_contribution(sc, ls, nearest_obj, hit_point, normal) ==
    LightSum(sc, ls, nearest_obj, hit_point, normal, 1, Zero3)

\* a cutoff that lets a call at depth max_depth recurse once more
Reflects_OffByOne(depth, maxd, s) == depth <= maxd /\ s.reflection > 0

\* the condition of the recursive call
Reflects(depth, maxd, s) == depth < maxd /\ s.reflection > 0

\* the mirror direction of ray_tracing.py's trace, before any perturbation
reflected_dir(d, normal) ==
    norm(sub(d, scale(normal, Mul(Num(2), dot(normal, d)))))

\* the directions the recursive call may take
ReflectedDirs(d, normal, s) ==
    IF s.roughness > 0 THEN perturb(reflected_dir(d, normal), s.roughness)
    ELSE {reflected_dir(d, normal)}

\* main.py's: ray_dir - normal * 2 * ray_dir.dot(normal)
main_reflect_dir(d, normal) ==
    sub(d, scale(scale(normal, Num(2)), dot(d, normal)))

\* reflection_contribution = reflection_color * nearest_obj.reflection
reflection_contribution(reflection_color, reflection) ==
    scale(reflection_color, reflection)

\* return color * light_contribution + reflection_contribution
Blend(color, lc, rc) == add(mulv(color, lc), rc)

\* main.py's: color * (1 - reflection) + reflection_color * reflection
MainCombine(color, reflection_color, reflection) ==
    add(scale(color, One - reflection), scale(reflection_color, reflection))

-----------------------------------------------------------------------------
(* The frames of trace *)

Frame(o, d, depth, maxd) ==
    [origin |-> o, dir |-> d, depth |-> depth, max_depth |-> maxd, pc |-> "start",
     nearest_t |-> Inf, nearest_obj |-> 0,
     hit_point |-> Zero3, normal |-> Zero3, color |-> Zero3,
     light_contribution |-> Zero3]

NoRet ==
    [set |-> FALSE, val |-> Zero3, kind |-> "none", frame |-> Frame(Zero3, Zero3, 0, 0),
     reflection_color |-> Zero3]

\* the frame f returns val: it leaves the stack and its caller finds val
Return(val, kind, f, reflection_color) ==
    /\ stack' = SubSeq(stack, 1, Len(stack) - 1)
    /\ ret' = [set |-> TRUE, val |-> val, kind |-> kind, frame |-> f,
               reflection_color |-> reflection_color]

Top == stack[Len(stack)]

Running(who) == impl = who /\ stack # <<>>

\* the frame with the nearest-hit search done and the hit point, the normal
\* and the surface colour computed
HitFrame(f, near) ==
    LET hit_point == add(f.origin, scale(f.dir, near.nearest_t))
        normal == norm(sub(hit_point, scene[near.nearest_obj].center))
    IN  [f EXCEPT !.nearest_t = near.nearest_t,
                  !.nearest_obj = near.nearest_obj,
                  !.hit_point = hit_point,
                  !.normal = normal,
                  !.color = get_surface_color(scene[near.nearest_obj], hit_point)]

\* a miss that is black whatever the environment
MissColor_Black(env, d) == Zero3

\* lines 41-43: the colour of a ray that hits nothing
MissColor(env, d) == IF env # <<>> THEN get_color(env, d) ELSE Zero3

\* ray_tracing.py's trace, lines 33-43: nothing is hit
trace_miss ==
    /\ Running("ray_tracing") /\ Top.pc = "start"
    /\ Nearest(scene, Top.origin, Top.dir).nearest_obj = 0
    /\ Return(MissColor(environment, Top.dir), "miss", Top, Zero3)
    /\ UNCHANGED <<callVars, t_result, pc, renderVars, otherVars>>

\* lines 33-62: a primitive is hit; the hit point is lit
trace_hit ==
    /\ Running("ray_tracing") /\ Top.pc = "start"
    /\ LET near == Nearest(scene, Top.origin, Top.dir)
           f == HitFrame(Top, near)
       IN  /\ near.nearest_obj # 0
           /\ stack' = [stack EXCEPT ![Len(stack)] =
                  [f EXCEPT !.pc = "lit",
                            !.light_contribution =
                                light_contribution(scene, lights, f.nearest_obj,
                                                   f.hit_point, f.normal)]]
    /\ UNCHANGED <<callVars, t_result, ret, pc, renderVars, otherVars>>

\* lines 66-86: the recursive call
trace_reflect ==
    /\ Running("ray_tracing") /\ Top.pc = "lit"
    /\ Reflects(Top.depth, Top.max_depth, scene[Top.nearest_obj])
    /\ \E d \in ReflectedDirs(Top.dir, Top.normal, scene[Top.nearest_obj]) :
          stack' = Append([stack EXCEPT ![Len(stack)].pc = "await"],
                          Frame(add(Top.hit_point, scale(Top.normal, Eps)), d,
                                Top.depth + 1, Top.max_depth))
    /\ UNCHANGED <<callVars, t_result, ret, pc, renderVars, otherVars>>

\* lines 65-70 and 90: no recursive call, the reflection contribution is zero
trace_no_reflect ==
    /\ Running("ray_tracing") /\ Top.pc = "lit"
    /\ ~Reflects(Top.depth, Top.max_depth, scene[Top.nearest_obj])
    /\ Return(Blend(Top.color, Top.light_contribution, Zero3), "leaf", Top, Zero3)
    /\ UNCHANGED <<callVars, t_result, pc, renderVars, otherVars>>

\* lines 87-90: the recursive call has returned
trace_combine ==
    /\ Running("ray_tracing") /\ Top.pc = "await" /\ ret.set
    /\ Return(Blend(Top.color, Top.light_contribution,
                    reflection_contribution(ret.val, scene[Top.nearest_obj].reflection)),
              "combine", Top, ret.val)
    /\ UNCHANGED <<callVars, t_result, pc, renderVars, otherVars>>

\* main.py's trace, lines 75-82
main_miss ==
    /\ Running("main") /\ Top.pc = "start"
    /\ Nearest(scene, Top.origin, Top.dir).nearest_obj = 0
    /\ Return(Zero3, "miss", Top, Zero3)
    /\ UNCHANGED <<callVars, t_result, pc, renderVars, otherVars>>

\* main.py's one light, lines 86-90: diff = max(normal.dot(light_dir), 0),
\* computed and not used
MainLight == Light(Vec3(Num(5), Num(5), -Num(10)), Vec3(One, One, One))

\* lines 75-92
main_hit ==
    /\ Running("main") /\ Top.pc = "start"
    /\ LET near == Nearest(scene, Top.origin, Top.dir)
           f == HitFrame(Top, near)
       IN  /\ near.nearest_obj # 0
           /\ stack' = [stack EXCEPT ![Len(stack)] =
                  [f EXCEPT !.pc = "lit",
                            !.light_contribution =
                                Diffuse(f.normal, MainLight, f.hit_point)]]
    /\ UNCHANGED <<callVars, t_result, ret, pc, renderVars, otherVars>>

\* lines 96-98
main_reflect ==
    /\ Running("main") /\ Top.pc = "lit"
    /\ Reflects(Top.depth, MainMaxDepth, scene[Top.nearest_obj])
    /\ stack' = Append([stack EXCEPT ![Len(stack)].pc = "await"],
                       Frame(add(Top.hit_point, scale(Top.normal, Eps)),
                             main_reflect_dir(Top.dir, Top.normal), Top.depth + 1,
                             MainMaxDepth))
    /\ UNCHANGED <<callVars, t_result, ret, pc, renderVars, otherVars>>

\* lines 96 and 101
main_no_reflect ==
    /\ Running("main") /\ Top.pc = "lit"
    /\ ~Reflects(Top.depth, MainMaxDepth, scene[Top.nearest_obj])
    /\ Return(Top.color, "leaf", Top, Zero3)
    /\ UNCHANGED <<callVars, t_result, pc, renderVars, otherVars>>

\* lines 99-101
main_combine ==
    /\ Running("main") /\ Top.pc = "await" /\ ret.set
    /\ Return(MainCombine(Top.color, ret.val, scene[Top.nearest_obj].reflection),
              "combine", Top, ret.val)
    /\ UNCHANGED <<callVars, t_result, pc, renderVars, otherVars>>

TraceStep ==
    \/ trace_miss \/ trace_hit \/ trace_reflect \/ trace_no_reflect \/ trace_combine
    \/ main_miss \/ main_hit \/ main_reflect \/ main_no_reflect \/ main_combine

-----------------------------------------------------------------------------
(* render, ray_tracing.py lines 93-128 *)

\* the max_depth a call of trace without the argument gets
DefaultMaxDepth == 3

\* np.clip(c, 0, 1), per component
clip1(a) == Max(0, Min(a, One))

clip(c) == Vec3(clip1(c.x), clip1(c.y), clip1(c.z))

\* np.linspace(start, stop, n)[k], k from 0
linspace(start, stop, n, k) ==
    IF n = 1 THEN start
    ELSE IF k = n - 1 THEN stop
    ELSE start + k * ((stop - start) \div (n - 1))

\* screen = (-1, 1 / aspect_ratio, 1, -1 / aspect_ratio)
aspect_ratio(w, h) == Div(Num(w), Num(h))

screen(w, h) ==
    <<-One, Div(One, aspect_ratio(w, h)), One, -Div(One, aspect_ratio(w, h))>>

PixelY(w, h, i) == linspace(screen(w, h)[2], screen(w, h)[4], h, i)

PixelX(w, h, j) == linspace(screen(w, h)[1], screen(w, h)[3], w, j)

\* render's camera
RenderCamera == Vec3(0, 0, -Num(10))

\* np.zeros((height, width, 3))
zeros(h, w) == [i \in 1..h |-> [j \in 1..w |-> Zero3]]

\* the pixel loop's next place after (i, j), as <<i, j>>
NextPixel(w, i, j) == IF j + 1 < w THEN <<i, j + 1>> ELSE <<i + 1, 0>>

\* lines 123-125: the ray through pixel (loop_i, loop_j) is traced
render_trace ==
    /\ pc = "render" /\ impl = "ray_tracing" /\ stack = <<>>
    /\ loop_i < height
    /\ LET pixel == Vec3(PixelX(width, height, loop_j), PixelY(width, height, loop_i), 0)
       IN  stack' = <<Frame(RenderCamera, norm(sub(pixel, RenderCamera)), 0,
                                DefaultMaxDepth)>>
    /\ pc' = "render_wait"
    /\ UNCHANGED <<callVars, t_result, ret, renderVars, otherVars>>

\* line 126: image[i, j] = np.clip(color.components(), 0, 1)
render_store ==
    /\ pc = "render_wait" /\ stack = <<>> /\ ret.set
    /\ image' = [image EXCEPT ![loop_i + 1][loop_j + 1] = clip(ret.val)]
    /\ loop_i' = NextPixel(width, loop_i, loop_j)[1]
    /\ loop_j' = NextPixel(width, loop_i, loop_j)[2]
    /\ ret' = NoRet
    /\ pc' = "render"
    /\ UNCHANGED <<callVars, t_result, stack, width, height, otherVars>>

\* line 128: return image
render_return ==
    /\ pc = "render" /\ loop_i >= height
    /\ pc' = "rendered"
    /\ UNCHANGED <<callVars, t_result, stack, ret, renderVars, otherVars>>

-----------------------------------------------------------------------------
(* render_monte_carlo_live, ray_tracing.py lines 131-159: a generator *)

\* render_monte_carlo_live's camera
LiveCamera == Vec3(0, 0, -One)

\* np.random.uniform(-1 / n, 1 / n): the offsets tried
Jitter(n) == {-Div(One, Num(n)), 0}

\* the divisor of line 158 when it is the Total of the passes
Divisor_Total(k, n) == n

\* the divisor of line 158: the pass that has just ended
Divisor(k, n) == k

\* line 158: np.clip(accumulated_color / sample, 0, 1)
Averaged(acc, k) ==
    [i \in DOMAIN acc |->
        [j \in DOMAIN acc[i] |->
            clip(Vec3(Div(acc[i][j].x, Num(k)), Div(acc[i][j].y, Num(k)),
                      Div(acc[i][j].z, Num(k))))]]

\* lines 150-154: the jittered ray of pixel (loop_i, loop_j) is traced
live_trace ==
    /\ pc = "live" /\ stack = <<>>
    /\ sample <= samples_per_pixel /\ loop_i < height
    /\ \E u \in Jitter(width), v \in Jitter(height) :
          LET pixel == Vec3(PixelX(width, height, loop_j) + u,
                            PixelY(width, height, loop_i) + v, 0)
          IN  stack' = <<Frame(LiveCamera, norm(sub(pixel, LiveCamera)), 0,
                               DefaultMaxDepth)>>
    /\ pc' = "live_wait"
    /\ UNCHANGED <<callVars, t_result, ret, renderVars, otherVars>>

\* line 155: accumulated_color[i, j] += color.components()
live_store ==
    /\ pc = "live_wait" /\ stack = <<>> /\ ret.set
    /\ accumulated_color' =
          [accumulated_color EXCEPT ![loop_i + 1][loop_j + 1] = add(@, ret.val)]
    /\ sampled' = [sampled EXCEPT ![loop_i + 1][loop_j + 1] = @ + 1]
    /\ loop_i' = NextPixel(width, loop_i, loop_j)[1]
    /\ loop_j' = NextPixel(width, loop_i, loop_j)[2]
    /\ ret' = NoRet
    /\ pc' = "live"
    /\ UNCHANGED <<callVars, t_result, stack, width, height, image,
                   samples_per_pixel, sample, updates, partial_image,
                   singleVars, procVars>>

\* lines 158-159: the pass is over, the averages are yielded
live_yield ==
    /\ pc = "live" /\ sample <= samples_per_pixel /\ loop_i >= height
    /\ image' = Averaged(accumulated_color, Divisor(sample, samples_per_pixel))
    /\ pc' = "yielded"
    /\ UNCHANGED <<callVars, t_result, stack, ret, width, height, loop_i, loop_j,
                   otherVars>>

\* the consumer's loop, scenes.py lines 74-83: the yielded image is bound to
\* the loop variable and shown, and the generator is resumed at line 146
for_body ==
    /\ pc = "yielded"
    /\ partial_image' = image
    /\ updates' = Append(updates, [image |-> image, sample |-> sample,
                                   sampled |-> sampled,
                                   accumulated_color |-> accumulated_color])
    /\ sample' = sample + 1
    /\ loop_i' = 0 /\ loop_j' = 0
    /\ pc' = "live"
    /\ UNCHANGED <<callVars, t_result, stack, ret, width, height, image,
                   samples_per_pixel, accumulated_color, sampled,
                   singleVars, procVars>>

\* line 146: range(1, samples_per_pixel + 1) is exhausted, the generator ends
live_stop ==
    /\ pc = "live" /\ sample > samples_per_pixel
    /\ pc' = "exhausted"
    /\ UNCHANGED <<callVars, t_result, stack, ret, renderVars, otherVars>>

-----------------------------------------------------------------------------
(* render_single_image, scenes.py lines 53-111 *)

\* denoise(image): an external filter; the images it may give back
denoise_image(img) == {img, [i \in DOMAIN img |-> [j \in DOMAIN img[i] |-> img[1][1]]]}

\* (image * 255).astype(np.uint8), for a channel in [0, 1]
uint8(a) == (a * 255) \div Scale

to_uint8(img) ==
    [i \in DOMAIN img |->
        [j \in DOMAIN img[i] |->
            Vec3(uint8(img[i][j].x), uint8(img[i][j].y), uint8(img[i][j].z))]]

\* lines 56-71: the log file is prepared, the environment is loaded
single_setup ==
    /\ pc = "single"
    /\ IF log_results
       THEN dirs' = dirs \cup {"dataset"} /\ csv_created' = TRUE
       ELSE UNCHANGED <<dirs, csv_created>>
    /\ pc' = "single_dispatch"
    /\ UNCHANGED <<callVars, t_result, stack, ret, renderVars, liveVars, procVars,
                   log_results, render_algorithm, denoise, output_dir, dirs_before,
                   csv_rows, saved>>

\* lines 73-81: the generator is created and first resumed (lines 139-144)
single_monte_carlo ==
    /\ pc = "single_dispatch" /\ render_algorithm = "monte_carlo"
    /\ image' = zeros(height, width)
    /\ accumulated_color' = zeros(height, width)
    /\ sample' = 1 /\ loop_i' = 0 /\ loop_j' = 0
    /\ pc' = "live"
    /\ UNCHANGED <<callVars, t_result, stack, ret, width, height,
                   samples_per_pixel, sampled, updates, partial_image,
                   singleVars, procVars>>

\* lines 89-90: raise ValueError("Invalid render algorithm")
single_invalid ==
    /\ pc = "single_dispatch" /\ render_algorithm # "monte_carlo"
    /\ pc' = "single_raised"
    /\ UNCHANGED <<callVars, t_result, stack, ret, renderVars, otherVars>>

\* line 85 with a loop variable that starts as a blank image: no error when
\* the loop never ran
single_image_Blank ==
    /\ pc = "exhausted"
    /\ image' = IF partial_image = <<>> THEN zeros(height, width) ELSE partial_image
    /\ pc' = "single_denoise"
    /\ UNCHANGED <<callVars, t_result, stack, ret, width, height, loop_i, loop_j,
                   otherVars>>

\* line 85: image = partial_image, an UnboundLocalError when the loop never ran
single_image ==
    /\ pc = "exhausted"
    /\ IF partial_image = <<>>
       THEN pc' = "single_raised" /\ UNCHANGED image
       ELSE pc' = "single_denoise" /\ image' = partial_image
    /\ UNCHANGED <<callVars, t_result, stack, ret, width, height, loop_i, loop_j,
                   otherVars>>

\* lines 92-99
single_denoise ==
    /\ pc = "single_denoise"
    /\ IF denoise
       THEN image' \in denoise_image(image)
       ELSE UNCHANGED image
    /\ pc' = "single_save"
    /\ UNCHANGED <<callVars, t_result, stack, ret, width, height, loop_i, loop_j,
                   otherVars>>

\* lines 101-111: the image is written, and a row is added to the log
single_save ==
    /\ pc = "single_save"
    /\ dirs' = dirs \cup {output_dir}
    /\ saved' = to_uint8(image)
    /\ csv_rows' = IF log_results THEN csv_rows + 1 ELSE csv_rows
    /\ pc' = "single_returned"
    /\ UNCHANGED <<callVars, t_result, stack, ret, renderVars, liveVars, procVars,
                   log_results, render_algorithm, denoise, output_dir, dirs_before,
                   csv_created>>

-----------------------------------------------------------------------------
(* render_monte_carlo_processes and render_pixel, ray_tracing.py lines 162-209 *)

\* render_monte_carlo_processes' camera
ProcCamera == Zero3

\* the executor's worker processes
Workers == 2

RECURSIVE Sum3(_)
\* the sum of the colours cs
Sum3(cs) == IF cs = <<>> THEN Zero3 ELSE add(cs[1], Sum3(Tail(cs)))

\* what render_pixel would return if it answered for the cell (0, 0)
PixelResult_Origin(i, j, color) == [i |-> 0, j |-> 0, color |-> color]

\* line 172: return i, j, np.clip(...)
PixelResult(i, j, color) == [i |-> i, j |-> j, color |-> color]

\* lines 165-171, for a scene without objects, where trace is lines 39-43:
\* the colours of one sample of pixel (i, j), over the offsets tried
SampleColors(i, j) ==
    {MissColor(environment,
               norm(sub(Vec3(PixelX(width, height, j) + u,
                             PixelY(width, height, i) + v, 0), ProcCamera))) :
        u \in Jitter(width), v \in Jitter(height)}

\* line 172: the clipped mean of the samples cs
PixelColor(cs) ==
    LET s == Sum3(cs)
        n == Num(Len(cs))
    IN  clip(Vec3(Div(s.x, n), Div(s.y, n), Div(s.z, n)))

\* render_pixel(i, j, ...): the values it may return
render_pixel(i, j) ==
    {PixelResult(i, j, PixelColor(cs)) :
        cs \in [1..samples_per_pixel -> SampleColors(i, j)]}

\* a submitted task; overtook tells that it ended while a task submitted
\* before it was still running
Future(i, j) ==
    [i |-> i, j |-> j, state |-> "pending", result |-> <<>>, overtook |-> FALSE]

Finished(f) == f.state \in {"done", "failed"}

Overtakes(k) == \E m \in 1..(k - 1) : futures[m].state = "running"

InPool == pc \in {"proc_submit", "proc_gather", "proc_unwind"}

\* lines 186-203: executor.submit(render_pixel, i, j, ...)
proc_submit ==
    /\ pc = "proc_submit" /\ loop_i < height
    /\ futures' = Append(futures, Future(loop_i, loop_j))
    /\ loop_i' = NextPixel(width, loop_i, loop_j)[1]
    /\ loop_j' = NextPixel(width, loop_i, loop_j)[2]
    /\ pc' = IF NextPixel(width, loop_i, loop_j)[1] >= height
             THEN "proc_gather" ELSE "proc_submit"
    /\ UNCHANGED <<callVars, t_result, stack, ret, width, height, image,
                   liveVars, singleVars, next_future, writes, failing, raised>>

\* a free worker takes the oldest task of the queue
worker_start ==
    /\ InPool
    /\ Cardinality({k \in DOMAIN futures : futures[k].state = "running"}) < Workers
    /\ \E k \in DOMAIN futures :
          /\ futures[k].state = "pending"
          /\ \A m \in 1..(k - 1) : futures[m].state # "pending"
          /\ futures' = [futures EXCEPT ![k].state = "running"]
    /\ UNCHANGED <<callVars, t_result, stack, ret, pc, renderVars,
                   liveVars, singleVars, next_future, writes, failing, raised>>

\* a worker ends its task: render_pixel has returned, or it has raised
worker_finish ==
    /\ InPool
    /\ \E k \in DOMAIN futures :
          /\ futures[k].state = "running"
          /\ IF <<futures[k].i, futures[k].j>> \in failing
             THEN futures' = [futures EXCEPT ![k].state = "failed",
                                             ![k].overtook = Overtakes(k)]
             ELSE \E r \in render_pixel(futures[k].i, futures[k].j) :
                     futures' = [futures EXCEPT ![k].state = "done", ![k].result = r,
                                                ![k].overtook = Overtakes(k)]
    /\ UNCHANGED <<callVars, t_result, stack, ret, pc, renderVars,
                   liveVars, singleVars, next_future, writes, failing, raised>>

\* lines 205-207: i, j, color = future.result(); image[i, j] = color
proc_gather ==
    /\ pc = "proc_gather" /\ next_future <= Len(futures)
    /\ futures[next_future].state = "done"
    /\ LET r == futures[next_future].result
       IN  /\ image' = [image EXCEPT ![r.i + 1][r.j + 1] = r.color]
           /\ writes' = [writes EXCEPT ![r.i + 1][r.j + 1] = @ + 1]
    /\ next_future' = next_future + 1
    /\ UNCHANGED <<callVars, t_result, stack, ret, pc, width, height, loop_i, loop_j,
                   liveVars, singleVars, futures, failing, raised>>

\* line 206: future.result() raises the error of the task, which leaves the
\* with block of line 184
proc_gather_error ==
    /\ pc = "proc_gather" /\ next_future <= Len(futures)
    /\ futures[next_future].state = "failed"
    /\ raised' = next_future
    /\ pc' = "proc_unwind"
    /\ UNCHANGED <<callVars, t_result, stack, ret, renderVars,
                   liveVars, singleVars, futures, next_future, writes, failing>>

\* the with block's exit after an error, executor.shutdown(wait=True): the
\* error goes on to the caller once every task has ended
proc_unwind ==
    /\ pc = "proc_unwind"
    /\ \A k \in DOMAIN futures : Finished(futures[k])
    /\ pc' = "proc_raised"
    /\ UNCHANGED <<callVars, t_result, stack, ret, renderVars, otherVars>>

\* lines 205-209: the loop is over, the with block is left, return image
proc_return ==
    /\ pc = "proc_gather" /\ next_future > Len(futures)
    /\ \A k \in DOMAIN futures : Finished(futures[k])
    /\ pc' = "proc_returned"
    /\ UNCHANGED <<callVars, t_result, stack, ret, renderVars, otherVars>>

-----------------------------------------------------------------------------
(* The scenes, lights and rays tried *)

\* the largest max_depth tried
MaxDepthBound == 3

\* the largest image width and height tried
MaxWidth == 2

MaxHeight == 2

Half == One \div 2

White == Vec3(One, One, One)

Texture1 ==
    <<<<Vec3(One, 0, 0), Vec3(0, One, 0), Vec3(0, 0, 0)>>,
      <<Vec3(0, 0, One), Vec3(Half, Half, 0), Vec3(0, 0, 0)>>,
      <<Vec3(0, 0, 0), Vec3(0, 0, 0), Vec3(0, 0, 0)>>>>

Environment1 ==
    <<<<Vec3(Half, Half, One), Vec3(One, Half, Half), Vec3(0, 0, 0)>>,
      <<Vec3(Half, One, Half), Vec3(One, One, Half), Vec3(0, 0, 0)>>,
      <<Vec3(0, 0, 0), Vec3(0, 0, 0), Vec3(0, 0, 0)>>>>

SphA == Sphere(Vec3(0, 0, Num(3)), One, Vec3(One, 0, 0), Half, 0, <<>>)

SphB == Sphere(Vec3(0, 0, -Num(3)), One, Vec3(0, One, 0), One, 0, <<>>)

SphMatte == Sphere(Vec3(0, 0, Num(3)), One, Vec3(0, 0, One), 0, 0, <<>>)

SphOcc == Sphere(Vec3(0, One + Half, One), Half, White, 0, 0, <<>>)

SphBeyond == Sphere(Vec3(0, Num(6), -Num(2)), One, White, 0, 0, <<>>)

SphBig == Sphere(Vec3(0, 0, Num(4)), Num(2), Vec3(One, One, 0), Half, 0, <<>>)

SphRough == Sphere(Vec3(0, 0, Num(3)), One, Vec3(One, 0, One), Half, One \div 5, <<>>)

SphTex == Sphere(Vec3(0, 0, Num(3)), One, White, 0, 0, Texture1)

TraceScenes ==
    {<<>>, <<SphA>>, <<SphA, SphB>>, <<SphA, SphOcc>>, <<SphA, SphBeyond>>,
     <<SphA, SphBig>>, <<SphBig, SphA>>, <<SphMatte>>, <<SphRough, SphB>>,
     <<SphTex>>}

Light1 == Light(Vec3(0, Num(3), 0), White)

Light2 == Light(Vec3(0, -Num(3), 0), Vec3(Half, Half, Half))

TraceLights == {<<>>, <<Light1>>, <<Light1, Light2>>}

Environments == {<<>>, Environment1}

\* <<origin, direction>>
TraceRays ==
    {<<Zero3, Vec3(0, 0, One)>>, <<Zero3, Vec3(0, 0, -One)>>,
     <<Zero3, Vec3(0, One, 0)>>, <<Zero3, norm(Vec3(0, One, Num(4)))>>}

RenderScenes == {<<>>, <<SphBig>>}

IdleIntersect == obj = SphA /\ t_result = None

IdleRender == width = 1 /\ height = 1 /\ image = zeros(1, 1) /\ loop_i = 0 /\ loop_j = 0

IdleLive ==
    /\ samples_per_pixel = 0 /\ sample = 1 /\ accumulated_color = zeros(1, 1)
    /\ sampled = <<<<0>>>> /\ updates = <<>> /\ partial_image = <<>>

IdleSingle ==
    /\ log_results = FALSE /\ render_algorithm = "monte_carlo" /\ denoise = FALSE
    /\ output_dir = "output" /\ dirs = {} /\ dirs_before = {}
    /\ csv_created = FALSE /\ csv_rows = 0 /\ saved = <<>>

IdleProc ==
    /\ futures = <<>> /\ next_future = 1 /\ writes = <<<<0>>>> /\ failing = {}
    /\ raised = 0

IdleOthers == IdleLive /\ IdleSingle /\ IdleProc

\* trace is called with a ray, by ray_tracing.py's trace
InitTraceCall ==
    /\ impl = "ray_tracing"
    /\ scene \in TraceScenes
    /\ lights \in TraceLights
    /\ environment \in Environments
    /\ max_depth \in 0..MaxDepthBound
    /\ \E r \in TraceRays : ray_origin = r[1] /\ ray_dir = r[2]
    /\ stack = <<>> /\ ret = NoRet /\ pc = "call"
    /\ IdleIntersect /\ IdleRender /\ IdleOthers

\* main.py's trace: no lights, no environment, the cutoff hard-coded
InitMainCall ==
    /\ impl = "main"
    /\ scene \in TraceScenes
    /\ lights = <<>>
    /\ environment = <<>>
    /\ max_depth = MainMaxDepth
    /\ \E r \in TraceRays : ray_origin = r[1] /\ ray_dir = r[2]
    /\ stack = <<>> /\ ret = NoRet /\ pc = "call"
    /\ IdleIntersect /\ IdleRender /\ IdleOthers

\* render is called
InitRender ==
    /\ impl = "ray_tracing"
    /\ scene \in RenderScenes
    /\ lights \in {<<>>, <<Light1>>}
    /\ environment \in Environments
    /\ max_depth = DefaultMaxDepth
    /\ ray_origin = Zero3 /\ ray_dir = Zero3
    /\ stack = <<>> /\ ret = NoRet /\ pc = "render"
    /\ width \in 1..MaxWidth /\ height \in 1..MaxHeight
    /\ image = zeros(height, width) /\ loop_i = 0 /\ loop_j = 0
    /\ IdleIntersect /\ IdleOthers

Init == InitTraceCall \/ InitMainCall \/ InitRender

\* trace(ray_origin, ray_dir, scene, lights, 0, max_depth, environment)
call_trace ==
    /\ pc = "call"
    /\ stack' = <<Frame(ray_origin, ray_dir, 0, max_depth)>>
    /\ pc' = "called"
    /\ UNCHANGED <<callVars, t_result, ret, renderVars, otherVars>>

Next ==
    \/ call_trace
    \/ TraceStep
    \/ render_trace \/ render_store \/ render_return

Spec == Init /\ [][Next]_vars

-----------------------------------------------------------------------------
(* Sphere.intersect on its own: the inputs are drawn from bounded sets *)

\* the coordinates of the sphere centres and ray origins tried
IsectRange == 2

IsectCoords == {Num(n) : n \in (0 - IsectRange)..IsectRange}

IsectSpheres ==
    {Sphere(Vec3(0, cy, cz), Num(r), Vec3(One, 0, 0), 0, 0, <<>>) :
        cy \in {0, Num(1), Num(2)}, cz \in IsectCoords, r \in {1, 2}}

IsectOrigins == {Vec3(0, 0, oz) : oz \in IsectCoords}

\* unit directions (exact and rounded), and one that is not normalized
IsectDirs ==
    {Vec3(0, 0, One), Vec3(0, 0, -One), Vec3(0, One, 0),
     norm(Vec3(0, One, One)), norm(Vec3(0, One, Num(2))), Vec3(0, One, One)}

InitIntersect ==
    /\ obj \in IsectSpheres
    /\ ray_origin \in IsectOrigins
    /\ ray_dir \in IsectDirs
    /\ t_result = None
    /\ pc = "intersect"
    /\ impl = "main" /\ scene = <<>> /\ lights = <<>> /\ environment = <<>>
    /\ max_depth = MainMaxDepth /\ stack = <<>> /\ ret = NoRet
    /\ IdleRender /\ IdleOthers

\* t = obj.intersect(ray_origin, ray_dir)
Intersect ==
    /\ pc = "intersect"
    /\ t_result' = intersect(obj, ray_origin, ray_dir)
    /\ pc' = "intersected"
    /\ UNCHANGED <<callVars, stack, ret, renderVars, otherVars>>

NextIntersect == Intersect

SpecIntersect == InitIntersect /\ [][NextIntersect]_vars

-----------------------------------------------------------------------------
(* render_monte_carlo_live, consumed by a for loop *)

\* the largest samples_per_pixel tried
MaxSamples == 2

\* the largest number of pixels of an image rendered progressively
MaxPixels == 2

\* spheres in the way of the camera rays of the smallest images
LiveMirror == Sphere(Vec3(-Num(3), Num(3), Num(2)), Num(2), Vec3(One, Half, 0), Half, 0, <<>>)

LiveMatte == Sphere(Vec3(-Num(3), Num(3), Num(2)), Num(2), Vec3(0, Half, One), 0, 0, <<>>)

\* <<scene, lights, environment>>
LiveInputs ==
    {<<<<>>, <<>>, Environment1>>,
     <<<<LiveMirror>>, <<Light1>>, Environment1>>,
     <<<<LiveMatte>>, <<Light1>>, <<>>>>}

IntZeros(h, w) == [i \in 1..h |-> [j \in 1..w |-> 0]]

\* lines 139-144, up to the first pass
LiveStart ==
    /\ impl = "ray_tracing"
    /\ \E inp \in LiveInputs :
          scene = inp[1] /\ lights = inp[2] /\ environment = inp[3]
    /\ max_depth = DefaultMaxDepth
    /\ ray_origin = Zero3 /\ ray_dir = Zero3
    /\ stack = <<>> /\ ret = NoRet
    /\ image = zeros(height, width) /\ loop_i = 0 /\ loop_j = 0
    /\ sample = 1 /\ accumulated_color = zeros(height, width)
    /\ sampled = IntZeros(height, width)
    /\ updates = <<>> /\ partial_image = <<>>
    /\ IdleIntersect /\ IdleProc

InitLive ==
    /\ width \in 1..MaxPixels /\ height \in 1..MaxPixels
    /\ width * height <= MaxPixels
    /\ samples_per_pixel \in 0..MaxSamples
    /\ LiveStart
    /\ pc = "live"
    /\ IdleSingle

NextLive ==
    \/ live_trace
    \/ trace_miss
    \/ trace_hit
    \/ trace_reflect
    \/ trace_no_reflect
    \/ trace_combine
    \/ live_store
    \/ live_yield
    \/ for_body
    \/ live_stop

SpecLive == InitLive /\ [][NextLive]_vars

-----------------------------------------------------------------------------
(* render_single_image is called *)

InitSingle ==
    /\ width = 1 /\ height = 1
    /\ samples_per_pixel \in 0..MaxSamples
    /\ LiveStart
    /\ pc = "single"
    /\ log_results \in BOOLEAN
    /\ render_algorithm \in {"monte_carlo", "ray_tracing"}
    /\ denoise \in BOOLEAN
    /\ output_dir \in {"dataset", "output"}
    /\ dirs \in {{}, {"dataset", "output"}}
    /\ dirs_before = dirs
    /\ csv_created = FALSE /\ csv_rows = 0 /\ saved = <<>>

NextSingle ==
    \/ single_setup
    \/ single_monte_carlo
    \/ single_invalid
    \/ NextLive
    \/ single_image
    \/ single_denoise
    \/ single_save

SpecSingle == InitSingle /\ [][NextSingle]_vars

-----------------------------------------------------------------------------
(* render_monte_carlo_processes is called *)

\* the largest number of cells of an image rendered by the pool
MaxCells == 4

\* the largest number of failing cells tried
MaxFailing == 1

Cells(h, w) == (0..(h - 1)) \X (0..(w - 1))

InitProc ==
    /\ impl = "ray_tracing"
    /\ scene = <<>> /\ lights = <<>>
    /\ environment \in Environments
    /\ max_depth = DefaultMaxDepth
    /\ ray_origin = Zero3 /\ ray_dir = Zero3
    /\ stack = <<>> /\ ret = NoRet /\ pc = "proc_submit"
    /\ width \in 1..MaxCells /\ height \in 1..MaxCells
    /\ width * height <= MaxCells
    /\ samples_per_pixel \in {1, 2}
    /\ image = zeros(height, width) /\ loop_i = 0 /\ loop_j = 0
    /\ futures = <<>> /\ next_future = 1 /\ writes = IntZeros(height, width)
    /\ failing \in {f \in SUBSET Cells(height, width) : Cardinality(f) <= MaxFailing}
    /\ raised = 0
    /\ sample = 1 /\ accumulated_color = zeros(1, 1) /\ sampled = <<<<0>>>>
    /\ updates = <<>> /\ partial_image = <<>>
    /\ IdleIntersect /\ IdleSingle

NextProc ==
    \/ proc_submit
    \/ worker_start
    \/ worker_finish
    \/ proc_gather
    \/ proc_gather_error
    \/ proc_unwind
    \/ proc_return

SpecProc == InitProc /\ [][NextProc]_vars

-----------------------------------------------------------------------------
(* C6 *)

IsectDisc == QuadDisc(obj, ray_origin, ray_dir)

IsectT0 == RootT0(obj, ray_origin, ray_dir)

IsectT1 == RootT1(obj, ray_origin, ray_dir)

\* C6: Sphere.intersect returns "no hit" whenever disc <= 0 (a tangent ray is
\* a miss); otherwise t0 if t0 > 0, else t1 if t1 > 0, else "no hit".  A
\* returned value is strictly positive and is the smallest positive root.
C6_IntersectRoots ==
    pc = "intersected" =>
        /\ IsectDisc <= 0 => t_result = None
        /\ (IsectDisc > 0 /\ IsectT0 > 0) => t_result = Some(IsectT0)
        /\ (IsectDisc > 0 /\ IsectT0 <= 0 /\ IsectT1 > 0) => t_result = Some(IsectT1)
        /\ (IsectDisc > 0 /\ IsectT0 <= 0 /\ IsectT1 <= 0) => t_result = None
        /\ t_result.hit =>
              /\ t_result.t > 0
              /\ t_result.t \in {IsectT0, IsectT1}
              /\ \A r \in {IsectT0, IsectT1} : r > 0 => t_result.t <= r

\* a tangent ray (disc = 0, the double root positive) was intersected
C6_TangentMiss ==
    /\ pc = "intersected"
    /\ IsectDisc = 0
    /\ -QuadB(obj, ray_origin, ray_dir) > 0
    /\ t_result = None

\* a ray from inside the sphere: t0 is not positive and t1 is returned
C6_InsideReturnsT1 ==
    /\ pc = "intersected"
    /\ IsectDisc > 0
    /\ IsectT0 <= 0
    /\ t_result = Some(IsectT1)

-----------------------------------------------------------------------------
(* C1 *)

\* the frame above frame k of the stack is the call frame k made
NestedCall(k) ==
    /\ stack[k].pc = "await"
    /\ stack[k].depth < stack[k].max_depth
    /\ scene[stack[k].nearest_obj].reflection > 0
    /\ stack[k + 1].depth = stack[k].depth + 1
    /\ stack[k + 1].max_depth = stack[k].max_depth

C1_Bounded ==
    /\ \A k \in 1..Len(stack) :
          /\ stack[k].depth = k - 1
          /\ stack[k].depth <= stack[k].max_depth
          /\ stack[k].pc = "await" => stack[k].depth < stack[k].max_depth
    /\ \A k \in 1..(Len(stack) - 1) : NestedCall(k)
    /\ (stack # <<>> /\ stack[1].max_depth = 0) => Len(stack) = 1

\* the steps a call at depth d of trace can still take, its callees' included
Budget(f) == 3 * (f.max_depth - f.depth) + 3

\* a bound on the steps the calls on the stack can still take
Rank ==
    IF stack = <<>> THEN 0
    ELSE (Len(stack) - 1)
         + (CASE Top.pc = "start" -> Budget(Top)
              [] Top.pc = "lit" -> Budget(Top) - 1
              [] OTHER -> 1)

\* a call on the stack can take a step: its search is to be done, its
\* reflection is to be decided, or the call it waits for has returned
CanStep == Top.pc \in {"start", "lit"} \/ (Top.pc = "await" /\ ret.set)

\* C1: a call of trace at depth d makes its recursive call only when
\* d < max_depth and the hit primitive's reflection is positive, with depth
\* d + 1 and the same max_depth; so nested calls are at most max_depth deep,
\* none is made when max_depth = 0, and every call of trace returns: a call
\* is never stuck and each of its steps lowers the bound Rank.
C1_RecursionBounded ==
    /\ []C1_Bounded
    /\ [](stack # <<>> => CanStep /\ Rank > 0)
    /\ [][stack # <<>> => Rank' < Rank]_vars

\* a call at depth max_depth > 0 has hit a reflecting primitive and is cut off
C1_CutOff ==
    /\ stack # <<>>
    /\ Top.pc = "lit"
    /\ Top.depth = Top.max_depth
    /\ Top.max_depth = MaxDepthBound
    /\ scene[Top.nearest_obj].reflection > 0

-----------------------------------------------------------------------------
(* C7 *)

\* the calls of trace whose nearest-hit search is done: those on the stack
\* past their search, and the one that returned last
Searched ==
    {stack[k] : k \in {n \in 1..Len(stack) : stack[n].pc # "start"}}
        \cup (IF ret.set THEN {ret.frame} ELSE {})

\* the primitives the ray of call f hits, and where
HitT(f, k) == intersect(scene[k], f.origin, f.dir)

HitSet(f) == {k \in 1..Len(scene) : HitT(f, k).hit /\ HitT(f, k).t > 0}

\* C7: the nearest-hit search selects the primitive whose t is the minimum
\* positive t over all primitives the ray hits, the first in scene order
\* among those of that t, and shades it; when no primitive is hit, none is
\* selected.
C7_NearestFirst ==
    \A f \in Searched :
        /\ HitSet(f) = {} => f.nearest_obj = 0
        /\ HitSet(f) # {} =>
              /\ f.nearest_obj \in HitSet(f)
              /\ f.nearest_t = HitT(f, f.nearest_obj).t
              /\ \A k \in HitSet(f) :
                    /\ f.nearest_t <= HitT(f, k).t
                    /\ HitT(f, k).t = f.nearest_t => f.nearest_obj <= k
              /\ f.hit_point = add(f.origin, scale(f.dir, f.nearest_t))
              /\ f.color = get_surface_color(scene[f.nearest_obj], f.hit_point)

\* two primitives are hit at the same minimum t, and the first was selected
C7_TieTakesFirst ==
    /\ stack # <<>>
    /\ Top.pc = "lit"
    /\ \E k \in HitSet(Top) :
          k > Top.nearest_obj /\ HitT(Top, k).t = Top.nearest_t

-----------------------------------------------------------------------------
(* C8 *)

Background(d) == IF environment # <<>> THEN get_color(environment, d) ELSE Zero3

\* the ray render sends through pixel (i, j), both from 0
RenderDir(i, j) ==
    norm(sub(Vec3(PixelX(width, height, j), PixelY(width, height, i), 0),
             RenderCamera))

\* C8: for a ray that hits no primitive, at any depth, trace returns the
\* environment's colour for the ray's direction when there is an environment
\* and black otherwise, and evaluates no light and no reflection; a render of
\* an empty scene returns a buffer whose every cell is that colour.
C8_MissIsBackground ==
    /\ (ret.set /\ HitSet(ret.frame) = {}) =>
          /\ ret.kind = "miss"
          /\ ret.val = Background(ret.frame.dir)
          /\ ret.frame.pc = "start"
          /\ ret.frame.light_contribution = Zero3
          /\ ret.reflection_color = Zero3
    /\ (pc = "rendered" /\ scene = <<>>) =>
          \A i \in 1..height, j \in 1..width :
              image[i][j] = Background(RenderDir(i - 1, j - 1))

\* an empty scene with an environment has been rendered at the largest size
C8_EmptyRendered ==
    /\ pc = "rendered"
    /\ scene = <<>>
    /\ environment # <<>>
    /\ width = MaxWidth /\ height = MaxHeight
    /\ image[1][1] # image[height][1]

\* a reflected ray (depth > 0) has missed every primitive
C8_DeepMiss ==
    /\ ret.set /\ ret.kind = "miss" /\ ret.frame.depth > 0 /\ environment # <<>>

-----------------------------------------------------------------------------
(* C9 *)

\* the calls of ray_tracing.py's trace that have lit their hit point
Lit ==
    IF impl = "ray_tracing" THEN {f \in Searched : f.nearest_obj # 0} ELSE {}

\* the squared distance of a and b
DistSq(a, b) == dot(sub(a, b), sub(a, b))

\* sphere s cuts the segment from p to q strictly between its ends, which
\* lie outside s
Between(s, p, q) ==
    LET w == sub(q, p)
        v == sub(s.center, p)
        d == dot(v, w)
        ww == dot(w, w)
        rr == Mul(s.radius, s.radius)
    IN  /\ 0 < d /\ d < ww
        /\ DistSq(p, s.center) > rr
        /\ DistSq(q, s.center) > rr
        /\ dot(v, v) - Div(Mul(d, d), ww) < rr

\* some primitive other than the one hit lies between f's hit point and the light
OccludedBetween(f, l) ==
    \E k \in 1..Len(scene) :
        k # f.nearest_obj /\ Between(scene[k], f.hit_point, l.position)

\* the shadow ray of f towards the light meets primitive k
ShadowRayMeets(f, l, k) ==
    Truthy(intersect(scene[k], add(f.hit_point, scale(f.normal, Eps)),
                     norm(sub(l.position, f.hit_point))))

\* what the light adds at f's hit point, by the claim
ExpectedTerm(f, l) ==
    IF \E k \in 1..Len(scene) : k # f.nearest_obj /\ ShadowRayMeets(f, l, k)
    THEN Zero3
    ELSE scale(l.intensity, Max(dot(f.normal, norm(sub(l.position, f.hit_point))), 0))

RECURSIVE ExpectedSum(_, _)
ExpectedSum(f, n) ==
    IF n = 0 THEN Zero3 ELSE add(ExpectedSum(f, n - 1), ExpectedTerm(f, lights[n]))

C9_SelfNotTested ==
    /\ stack # <<>> /\ Top.pc = "lit" /\ impl = "ray_tracing"
    /\ \E n \in 1..Len(lights) :
          /\ ShadowRayMeets(Top, lights[n], Top.nearest_obj)
          /\ ExpectedTerm(Top, lights[n]) # Zero3

-----------------------------------------------------------------------------
(* C10 *)

\* the reflection term of the call that returned last
ReflectionTerm ==
    IF ret.kind = "combine"
    THEN scale(ret.reflection_color, scene[ret.frame.nearest_obj].reflection)
    ELSE Zero3

\* C10: for every ray that hits a primitive, trace returns exactly
\* surface_color * light_contribution + reflection_color * reflection, the
\* reflection term zero when no recursive call is made; the local term is
\* not weighted down by the reflection coefficient.
C10_Blend ==
    (ret.set /\ ret.frame.nearest_obj # 0) =>
        ret.val = add(mulv(ret.frame.color, ret.frame.light_contribution),
                      ReflectionTerm)

\* the same of ray_tracing.py's trace alone
C10_BlendRayTracing == impl = "ray_tracing" => C10_Blend

-----------------------------------------------------------------------------
(* C2 *)

\* the tasks submitted for the cell c
TasksOf(c) == {k \in DOMAIN futures : <<futures[k].i, futures[k].j>> = c}

\* C2: in render_monte_carlo_processes exactly one render_pixel task is
\* dispatched per cell (i, j) of the H x W image, each task returns its own
\* (i, j), and in whatever order the workers complete, when the function
\* returns every cell has been written exactly once, with the result of its
\* own task, and every dispatched task has completed.
C2_OneTaskPerCell ==
    /\ \A c \in Cells(height, width) : Cardinality(TasksOf(c)) <= 1
    /\ \A k \in DOMAIN futures : <<futures[k].i, futures[k].j>> \in Cells(height, width)
    /\ pc \in {"proc_gather", "proc_unwind", "proc_raised", "proc_returned"} =>
          /\ Len(futures) = width * height
          /\ \A c \in Cells(height, width) : Cardinality(TasksOf(c)) = 1
    /\ \A k \in DOMAIN futures :
          futures[k].state = "done" =>
              futures[k].result.i = futures[k].i /\ futures[k].result.j = futures[k].j
    /\ \A c \in Cells(height, width) : writes[c[1] + 1][c[2] + 1] <= 1
    /\ pc = "proc_returned" =>
          /\ \A k \in DOMAIN futures : futures[k].state = "done"
          /\ \A c \in Cells(height, width) :
                /\ writes[c[1] + 1][c[2] + 1] = 1
                /\ \A k \in TasksOf(c) :
                      image[c[1] + 1][c[2] + 1] = futures[k].result.color

\* a 2 x 2 image or larger has been returned, and a task submitted later
\* ended before one submitted earlier
C2_OutOfOrder ==
    /\ pc = "proc_returned" /\ width >= 2 /\ height >= 2
    /\ \E k \in DOMAIN futures : futures[k].overtook

-----------------------------------------------------------------------------
(* C3 *)

\* C3: when render_pixel raises in a worker of render_monte_carlo_processes
\* the whole render fails: no pixel buffer is returned, the first worker
\* error is propagated to the caller, and the remaining in-flight or
\* not-yet-started tasks are cancelled rather than run to completion.
C3_FailureCancelsRest ==
    /\ [](pc = "proc_returned" => \A k \in DOMAIN futures : futures[k].state # "failed")
    /\ [](pc \in {"proc_unwind", "proc_raised"} =>
             /\ raised \in DOMAIN futures
             /\ futures[raised].state = "failed"
             /\ \A m \in 1..(raised - 1) : futures[m].state = "done")
    /\ [][pc = "proc_unwind" =>
             \A k \in DOMAIN futures :
                 /\ futures[k].state = "pending" => futures'[k].state = "pending"
                 /\ futures[k].state = "running" => futures'[k].state # "done"]_vars

-----------------------------------------------------------------------------
(* C4 *)

\* C4: render_monte_carlo_live with samples_per_pixel = N yields exactly N
\* updates, one after each full pass over all pixels; the k-th update is the
\* clamped per-pixel average of exactly k samples per pixel, so the sample
\* count of successive updates grows by exactly 1 and every pixel of an
\* update has the same sample count.
C4_ProgressiveAverages ==
    /\ Len(updates) <= samples_per_pixel
    /\ pc = "exhausted" => Len(updates) = samples_per_pixel
    /\ \A k \in DOMAIN updates :
          /\ updates[k].sample = k
          /\ \A i \in 1..height, j \in 1..width :
                /\ updates[k].sampled[i][j] = k
                /\ updates[k].image[i][j] =
                      clip(Vec3(Div(updates[k].accumulated_color[i][j].x, Num(k)),
                                Div(updates[k].accumulated_color[i][j].y, Num(k)),
                                Div(updates[k].accumulated_color[i][j].z, Num(k))))

\* the generator has ended after two passes or more over two pixels or more,
\* and its first two updates differ
C4_TwoUpdates ==
    /\ pc = "exhausted" /\ samples_per_pixel >= 2 /\ width * height >= 2
    /\ Len(updates) = samples_per_pixel
    /\ updates[1].image # updates[2].image

-----------------------------------------------------------------------------
(* C5 *)

\* C5: when render_config.render_algorithm is anything other than
\* "monte_carlo", render_single_image raises the error before any rendering
\* pass runs and without having created or written any output: no image
\* file, no output directory, no results/log file entry.
C5_NoOutputOnBadMode ==
    (pc = "single_raised" /\ render_algorithm # "monte_carlo") =>
        /\ updates = <<>> /\ sampled = IntZeros(height, width)
        /\ saved = <<>>
        /\ dirs = dirs_before
        /\ ~csv_created /\ csv_rows = 0

\* what the code keeps of C5: no pass has run, no image and no row is written
C5_NoImageOnBadMode ==
    (pc = "single_raised" /\ render_algorithm # "monte_carlo") =>
        /\ updates = <<>> /\ sampled = IntZeros(height, width)
        /\ saved = <<>> /\ csv_rows = 0
        /\ dirs \subseteq dirs_before \cup {"dataset"}

-----------------------------------------------------------------------------
(* C11 *)

\* the shadow ray of call f towards light l
ShadowOrigin(f) == add(f.hit_point, scale(f.normal, Eps))

ShadowDir(f, l) == norm(sub(l.position, f.hit_point))

\* the positive parameters at which that ray cuts primitive k
PositiveRoots(f, l, k) ==
    IF QuadDisc(scene[k], ShadowOrigin(f), ShadowDir(f, l)) > 0
    THEN {t \in {RootT0(scene[k], ShadowOrigin(f), ShadowDir(f, l)),
                 RootT1(scene[k], ShadowOrigin(f), ShadowDir(f, l))} : t > 0}
    ELSE {}

Others(f) == {k \in 1..Len(scene) : k # f.nearest_obj}

\* the distance from f's hit point to the light
LightDist(f, l) == Sqrt(DistSq(l.position, f.hit_point))

\* primitive k lies on the shadow ray beyond the light only
BeyondLight(f, l, k) ==
    /\ PositiveRoots(f, l, k) # {}
    /\ \A t \in PositiveRoots(f, l, k) : t > LightDist(f, l)

\* what the light adds at f's hit point when the test has no distance bound
UnboundedTerm(f, l) ==
    IF \E k \in Others(f) : PositiveRoots(f, l, k) # {}
    THEN Zero3
    ELSE scale(l.intensity, Max(dot(f.normal, ShadowDir(f, l)), 0))

RECURSIVE UnboundedSum(_, _)
UnboundedSum(f, n) ==
    IF n = 0 THEN Zero3 ELSE add(UnboundedSum(f, n - 1), UnboundedTerm(f, lights[n]))

\* C11: the shadow test of trace has no distance bound: a light adds to the
\* light contribution at a hit point only if the shadow ray from the offset
\* hit point towards the light cuts no other primitive at any positive t; a
\* primitive on that ray beyond the light suppresses the light exactly as one
\* between the hit point and the light does.
C11_NoDistanceBound ==
    \A f \in Lit :
        /\ f.light_contribution = UnboundedSum(f, Len(lights))
        /\ \A n \in 1..Len(lights) :
              (\E k \in Others(f) : BeyondLight(f, lights[n], k)
                                      \/ Between(scene[k], f.hit_point, lights[n].position))
                  => UnboundedTerm(f, lights[n]) = Zero3

\* the only light faces the hit point, nothing lies between them, a primitive
\* lies beyond the light, and the light has added nothing
C11_BeyondSuppresses ==
    /\ stack # <<>> /\ Top.pc = "lit" /\ impl = "ray_tracing"
    /\ Len(lights) = 1
    /\ dot(Top.normal, ShadowDir(Top, lights[1])) > 0
    /\ ~OccludedBetween(Top, lights[1])
    /\ \E k \in Others(Top) : BeyondLight(Top, lights[1], k)
    /\ \A k \in Others(Top) :
          PositiveRoots(Top, lights[1], k) # {} => BeyondLight(Top, lights[1], k)
    /\ Top.light_contribution = Zero3

-----------------------------------------------------------------------------
(* C12 *)

\* the last update the generator has yielded
LastUpdate == updates[Len(updates)]

\* the update u is the clamped average of exactly n samples per pixel
AverageOf(u, n) ==
    \A i \in 1..height, j \in 1..width :
        /\ u.sampled[i][j] = n
        /\ u.image[i][j] =
              clip(Vec3(Div(u.accumulated_color[i][j].x, Num(n)),
                        Div(u.accumulated_color[i][j].y, Num(n)),
                        Div(u.accumulated_color[i][j].z, Num(n))))

AfterLoop == pc \in {"single_denoise", "single_save", "single_returned"}

\* C12: in monte_carlo mode render_single_image takes as its final image the
\* last update yielded by render_monte_carlo_live: for max_samples >= 1 the
\* clamped average over exactly max_samples samples per pixel, the output
\* file written only after all passes have completed; for max_samples = 0
\* the generator yields no update, no final image exists, and
\* render_single_image fails before writing any output image.
C12_FinalIsLastUpdate ==
    /\ [](pc = "single_denoise" =>
             /\ samples_per_pixel >= 1
             /\ Len(updates) = samples_per_pixel
             /\ image = LastUpdate.image
             /\ AverageOf(LastUpdate, samples_per_pixel))
    /\ []((AfterLoop /\ ~denoise) => image = LastUpdate.image)
    /\ [](saved # <<>> =>
             /\ pc = "single_returned"
             /\ samples_per_pixel >= 1
             /\ Len(updates) = samples_per_pixel
             /\ ~denoise => saved = to_uint8(LastUpdate.image))
    /\ []((render_algorithm = "monte_carlo" /\ samples_per_pixel = 0) =>
             /\ updates = <<>> /\ partial_image = <<>>
             /\ ~AfterLoop
             /\ saved = <<>>)
    /\ []((pc = "single_raised" /\ render_algorithm = "monte_carlo") =>
             samples_per_pixel = 0 /\ saved = <<>>)
    /\ [][(pc = "exhausted" /\ samples_per_pixel = 0) => pc' = "single_raised"]_vars

\* the image of a render of MaxSamples passes has been written without
\* denoising, and the last update differs from the first
C12_LastWritten ==
    /\ pc = "single_returned" /\ ~denoise
    /\ samples_per_pixel = MaxSamples /\ samples_per_pixel >= 2
    /\ saved = to_uint8(LastUpdate.image)
    /\ LastUpdate.image # updates[1].image

\* a render of no pass has failed at line 85
C12_NoPassFails ==
    /\ pc = "single_raised" /\ render_algorithm = "monte_carlo"
    /\ samples_per_pixel = 0

====
